---- MODULE Spec2Model ----
(***************************************************************************)
(* Model of the athlete resource of workout_api                            *)
(* (src/workout_api/atleta/controller.py).                                 *)
(*                                                                         *)
(* The store holds three tables (atletas, categorias, centros).  Every     *)
(* handler is an async function: each `await` on the session is a point    *)
(* where other requests run, so a handler is split into one action per     *)
(* awaited statement that reads or writes the store.  Requests run in the  *)
(* slots of Reqs; a slot holds the position and the locals of its          *)
(* handler; resposta is the response sent last; historico is the set of    *)
(* identifiers of the rows ever inserted.                                  *)
(*                                                                         *)
(* Strings whose characters matter (names, which ILIKE inspects) are       *)
(* sequences of one-character strings; the others are TLA+ strings.        *)
(***************************************************************************)
EXTENDS Integers, Sequences, FiniteSets, TLC

VARIABLES atletas, categorias, centros, slots, resposta, proximo_id, historico

vars == <<atletas, categorias, centros, slots, resposta, proximo_id, historico>>

(* ------------------------------ bounds -------------------------------- *)

\* number of identifiers uuid4() may hand out in one run
MaxAtletas == 2

\* concurrent requests in flight
Reqs == {1, 2}

\* input alphabets
Cpfs == {"111", "222"}
NomesCriar == {<<"A", "n">>}
PesosCriar == {70}
PesosAtualizar == {80}
NomesAtualizar == {<<"b">>}
CategoriaNomes == {"c1", "c2"}
CentroNomes == {"ct1"}
FiltrosNome == {<<>>, <<"a">>, <<"x">>, <<"_">>}
FiltrosCpf == {"", "111"}

(* --------------------------- HTTP statuses ---------------------------- *)

HTTP_200_OK == 200
HTTP_201_CREATED == 201
HTTP_204_NO_CONTENT == 204
HTTP_303_CPF == 303
HTTP_400_BAD_REQUEST == 400
HTTP_404_NOT_FOUND == 404
HTTP_500_INTERNAL_SERVER_ERROR == 500

(* ------------------------------ helpers ------------------------------- *)

\* the value of a Python variable holding None (a pk_id or id is >= 1)
None == 0

Ids(tabela) == {a.id : a \in tabela}
PkIds(tabela) == {c.pk_id : c \in tabela}

\* select(Model).filter_by(campo=valor) ... .scalars().first()
PrimeiroPorNome(tabela, nome) ==
    IF \E c \in tabela : c.nome = nome
    THEN (CHOOSE c \in tabela : c.nome = nome).pk_id
    ELSE None

PorId(id) == {a \in atletas : a.id = id}

\* uuid4 replaced by the lowest identifier no stored row holds
uuid4_reutiliza == CHOOSE i \in 1..(MaxAtletas + 2) : i \notin Ids(atletas) /\ \A j \in 1..(i - 1) : j \in Ids(atletas)

\* uuid4(): an identifier never handed out before
uuid4 == proximo_id

Idle == [pc |-> "idle"]

\* No athlete yet.  Categories and training centers are managed elsewhere and
\* exist before athletes are registered: two categories, one training center.
Init ==
    /\ atletas = {}
    /\ categorias = {[pk_id |-> 1, nome |-> "c1"], [pk_id |-> 2, nome |-> "c2"]}
    /\ centros = {[pk_id |-> 1, nome |-> "ct1"]}
    /\ slots = [r \in Reqs |-> Idle]
    /\ resposta = [op |-> "nenhuma", status |-> None, corpo |-> <<>>]
    /\ proximo_id = 1
    /\ historico = {}

Livre(r) == slots[r].pc = "idle"

Resposta(op, status, corpo) == [op |-> op, status |-> status, corpo |-> corpo]

\* the handler of slot r answers and ends
Responde(r, resp) ==
    /\ resposta' = resp
    /\ slots' = [slots EXCEPT ![r] = Idle]

\* the handler of slot r goes on to its next await with locals s
Segue(r, s) ==
    /\ slots' = [slots EXCEPT ![r] = s]
    /\ UNCHANGED resposta

(* ---------------------------- criar_atleta ---------------------------- *)

\* the handler without the `if not categoria` check
criar_atleta_categoria_sem_verificar(r, atleta_in) ==
    /\ Livre(r)
    /\ Segue(r, [pc |-> "criar_centro", atleta_in |-> atleta_in,
                 categoria |-> PrimeiroPorNome(categorias, atleta_in.categoria)])
    /\ UNCHANGED <<atletas, categorias, centros, proximo_id, historico>>

\* lines 44-53: resolve the category by name, 400 when absent
criar_atleta_categoria(r, atleta_in) ==
    /\ Livre(r)
    /\ LET pk == PrimeiroPorNome(categorias, atleta_in.categoria) IN
        IF pk = None
        THEN Responde(r, Resposta("criar", HTTP_400_BAD_REQUEST,
                          [entidade |-> "categoria", nome |-> atleta_in.categoria]))
        ELSE Segue(r, [pc |-> "criar_centro", atleta_in |-> atleta_in, categoria |-> pk])
    /\ UNCHANGED <<atletas, categorias, centros, proximo_id, historico>>

(* ------------------- the store's constraints on atletas ---------------- *)

\* the cpf column declared without unique=True
ViolaCpfUnico_sem_unique(linha) == FALSE

\* atletas.cpf is declared unique
ViolaCpfUnico(linha) == \E a \in atletas : a.cpf = linha.cpf

\* atletas.categoria_id and atletas.centro_treinamento_id are foreign keys
ViolaChaveEstrangeira(linha) ==
    \/ linha.categoria_id \notin PkIds(categorias)
    \/ linha.centro_treinamento_id \notin PkIds(centros)

\* What `await db_session.commit()` of one added row can raise.  The store may
\* be unreachable (falha); otherwise every violated constraint is a possible
\* IntegrityError: which of two violated constraints the store reports first
\* is the store's choice.
ResultadosCommit(linha, falha) ==
    IF falha THEN {"OperationalError"}
    ELSE LET violadas ==
                 (IF ViolaCpfUnico(linha) THEN {"IntegrityError_unique_cpf"} ELSE {})
                 \cup (IF ViolaChaveEstrangeira(linha) THEN {"IntegrityError_fk"} ELSE {})
         IN IF violadas = {} THEN {"ok"} ELSE violadas

IsIntegrityError(e) == e \in {"IntegrityError_unique_cpf", "IntegrityError_fk"}

\* str(e.orig).lower(), as the words of the driver's message
MensagemOrig(e) ==
    IF e = "IntegrityError_unique_cpf"
    THEN <<"duplicate", "key", "violates", "unique", "constraint", "atletas", "cpf", "key">>
    ELSE <<"violates", "foreign", "key", "constraint", "atletas", "fkey">>

Contem(msg, palavra) == \E i \in 1..Len(msg) : msg[i] = palavra

\* the test for 'cpf' made on a word every message of the table carries
criar_atleta_except_atletas(e) ==
    IF Contem(MensagemOrig(e), "atletas") THEN HTTP_303_CPF
    ELSE HTTP_500_INTERNAL_SERVER_ERROR

\* the test made against 'CPF', which the lowered message never contains
criar_atleta_except_maiusculas(e) ==
    IF Contem(MensagemOrig(e), "CPF") THEN HTTP_303_CPF
    ELSE HTTP_500_INTERNAL_SERVER_ERROR

\* the except branch without the else: every IntegrityError answers 303
criar_atleta_except_sempre_303(e) == HTTP_303_CPF

\* lines 83-94: the except IntegrityError branch
criar_atleta_except(e) ==
    IF Contem(MensagemOrig(e), "cpf") THEN HTTP_303_CPF
    ELSE HTTP_500_INTERNAL_SERVER_ERROR

\* an exception no handler catches: the framework answers 500
erro_nao_tratado == HTTP_500_INTERNAL_SERVER_ERROR

\* lines 69-73: the row built from the request and the resolved entities
atleta_model(s) ==
    [id |-> uuid4, cpf |-> s.atleta_in.cpf, nome |-> s.atleta_in.nome,
     peso |-> s.atleta_in.peso, categoria_id |-> s.categoria,
     centro_treinamento_id |-> s.centro, created_at |-> proximo_id]

\* lines 56-65: resolve the training center by name, 400 when absent
criar_atleta_centro(r) ==
    /\ slots[r].pc = "criar_centro"
    /\ LET s == slots[r]
           pk == PrimeiroPorNome(centros, s.atleta_in.centro_treinamento) IN
        IF pk = None
        THEN Responde(r, Resposta("criar", HTTP_400_BAD_REQUEST,
                          [entidade |-> "centro_treinamento",
                           nome |-> s.atleta_in.centro_treinamento]))
        ELSE Segue(r, [pc |-> "criar_commit", atleta_in |-> s.atleta_in,
                       categoria |-> s.categoria, centro |-> pk])
    /\ UNCHANGED <<atletas, categorias, centros, proximo_id, historico>>

\* lines 67-94: build the row, add, commit, refresh; map the failures
criar_atleta_commit(r, falha) ==
    /\ slots[r].pc = "criar_commit"
    /\ proximo_id <= MaxAtletas
    /\ LET linha == atleta_model(slots[r]) IN
        \E e \in ResultadosCommit(linha, falha) :
            /\ proximo_id' = proximo_id + 1
            /\ IF e = "ok"
               THEN /\ atletas' = atletas \cup {linha}
                    /\ historico' = historico \cup {linha.id}
                    /\ Responde(r, Resposta("criar", HTTP_201_CREATED, linha))
               ELSE /\ UNCHANGED <<atletas, historico>>
                    /\ Responde(r, Resposta("criar",
                               IF IsIntegrityError(e) THEN criar_atleta_except(e)
                               ELSE erro_nao_tratado,
                               [exc |-> e, cpf |-> linha.cpf]))
    /\ UNCHANGED <<categorias, centros>>

(* ---------------------------- listar_atletas --------------------------- *)

\* case folding of the characters the alphabets use
Lower(c) == IF c = "A" THEN "a" ELSE IF c = "N" THEN "n" ELSE c

\* SQL's `texto ILIKE padrao`: % matches any run of characters, _ any one
\* character, every other character matches itself whatever its case
RECURSIVE ILike(_, _)
ILike(texto, padrao) ==
    IF padrao = <<>> THEN texto = <<>>
    ELSE IF Head(padrao) = "%"
         THEN \/ ILike(texto, Tail(padrao))
              \/ texto # <<>> /\ ILike(Tail(texto), padrao)
         ELSE /\ texto # <<>>
              /\ Head(padrao) = "_" \/ Lower(Head(padrao)) = Lower(Head(texto))
              /\ ILike(Tail(texto), Tail(padrao))

\* line 108: select(AtletaModel).join(CategoriaModel).join(CentroTreinamentoModel)
Juntados ==
    {a \in atletas : /\ a.categoria_id \in PkIds(categorias)
                     /\ a.centro_treinamento_id \in PkIds(centros)}

\* lines 110-113: the filters; None and the empty string are both falsy
Filtrados(nome, cpf) ==
    {a \in Juntados :
        /\ nome # <<>> => ILike(a.nome, <<"%">> \o nome \o <<"%">>)
        /\ cpf # "" => a.cpf = cpf}

\* lines 119-121: category and training center flattened to their names
AtletaResumo(a) ==
    [id |-> a.id, nome |-> a.nome, cpf |-> a.cpf,
     categoria |-> (CHOOSE c \in categorias : c.pk_id = a.categoria_id).nome,
     centro_treinamento |->
         (CHOOSE c \in centros : c.pk_id = a.centro_treinamento_id).nome]

\* lines 108-123 (one page holds every row the bounds allow)
listar_atletas(r, nome, cpf) ==
    /\ Livre(r)
    /\ Responde(r, Resposta("listar", HTTP_200_OK,
                            {AtletaResumo(a) : a \in Filtrados(nome, cpf)}))
    /\ UNCHANGED <<atletas, categorias, centros, proximo_id, historico>>

(* --------------------------- consultar_atleta -------------------------- *)

\* the lookup made on a column that never equals the identifier
consultar_atleta_nunca_encontra(r, id) ==
    /\ Livre(r)
    /\ Responde(r, Resposta("consultar", HTTP_404_NOT_FOUND, [id |-> id]))
    /\ UNCHANGED <<atletas, categorias, centros, proximo_id, historico>>

\* lines 136-146
consultar_atleta(r, id) ==
    /\ Livre(r)
    /\ Responde(r, IF PorId(id) = {}
                    THEN Resposta("consultar", HTTP_404_NOT_FOUND, [id |-> id])
                    ELSE Resposta("consultar", HTTP_200_OK, CHOOSE a \in PorId(id) : TRUE))
    /\ UNCHANGED <<atletas, categorias, centros, proximo_id, historico>>

(* --------------------------- atualizar_atleta -------------------------- *)

\* AtletaUpdate: every field is optional and defaults to None; fields_set are
\* the fields the request body carries
AtletaUpdateCampos == {"nome", "peso"}

\* the requests tried: an empty body, and one carrying the weight alone
CamposPedidos == {{}, {"peso"}}

AtletaUpdates ==
    {[valores |-> [nome |-> IF "nome" \in fs THEN n ELSE <<>>,
                   peso |-> IF "peso" \in fs THEN p ELSE None],
      fields_set |-> fs] :
        fs \in CamposPedidos, n \in NomesAtualizar, p \in PesosAtualizar}

\* model_dump() without exclude_unset: the unset fields come with their default
model_dump_tudo(atleta_update) == atleta_update.valores

\* line 170: atleta_update.model_dump(exclude_unset=True)
model_dump_exclude_unset(atleta_update) ==
    [k \in atleta_update.fields_set |-> atleta_update.valores[k]]

\* the loaded object, as far as the handler goes on to use it: the attributes
\* the request sets, whose loaded values the commit compares the new ones with
Carregado(linha, campos) == [k \in campos |-> linha[k]]

\* lines 160-168: look the athlete up, 404 when absent
atualizar_atleta_buscar(r, id, atleta_update) ==
    /\ Livre(r)
    /\ IF PorId(id) = {}
       THEN Responde(r, Resposta("atualizar", HTTP_404_NOT_FOUND, [id |-> id]))
       ELSE Segue(r, [pc |-> "atualizar_commit", id |-> id,
                      atleta_update |-> atleta_update,
                      atleta |-> Carregado(CHOOSE a \in PorId(id) : TRUE,
                                           atleta_update.fields_set)])
    /\ UNCHANGED <<atletas, categorias, centros, proximo_id, historico>>

\* lines 170-177: set the dumped fields on the loaded object, commit, refresh.
\* The unit of work writes the attributes whose value differs from the loaded
\* one, in one UPDATE of the loaded row; an UPDATE or a refresh that finds the
\* row gone raises (StaleDataError, InvalidRequestError), which nothing catches.
atualizar_atleta_commit(r) ==
    /\ slots[r].pc = "atualizar_commit"
    /\ LET s == slots[r]
           update_data == model_dump_exclude_unset(s.atleta_update)
           alterados == {k \in DOMAIN update_data :
                            k \in DOMAIN s.atleta => update_data[k] # s.atleta[k]}
       IN IF PorId(s.id) = {}
          THEN /\ Responde(r, Resposta("atualizar", erro_nao_tratado, [id |-> s.id]))
               /\ UNCHANGED atletas
          ELSE LET atual == CHOOSE a \in PorId(s.id) : TRUE
                   nova == [k \in DOMAIN atual |->
                               IF k \in alterados THEN update_data[k] ELSE atual[k]]
               IN /\ atletas' = (atletas \ {atual}) \cup {nova}
                  /\ Responde(r, Resposta("atualizar", HTTP_200_OK, nova))
    /\ UNCHANGED <<categorias, centros, proximo_id, historico>>

(* ---------------------------- deletar_atleta --------------------------- *)

\* lines 189-197: look the athlete up, 404 when absent
deletar_atleta_buscar(r, id) ==
    /\ Livre(r)
    /\ IF PorId(id) = {}
       THEN Responde(r, Resposta("deletar", HTTP_404_NOT_FOUND, [id |-> id]))
       ELSE Segue(r, [pc |-> "deletar_commit", id |-> id])
    /\ UNCHANGED <<atletas, categorias, centros, proximo_id, historico>>

\* a DELETE without its WHERE clause
deletar_atleta_commit_sem_where(r) ==
    /\ slots[r].pc = "deletar_commit"
    /\ atletas' = {}
    /\ Responde(r, Resposta("deletar", HTTP_204_NO_CONTENT, [id |-> slots[r].id]))
    /\ UNCHANGED <<categorias, centros, proximo_id, historico>>

\* lines 199-201: DELETE of the loaded row and commit (a DELETE that matches
\* no row only warns)
deletar_atleta_commit(r) ==
    /\ slots[r].pc = "deletar_commit"
    /\ atletas' = atletas \ PorId(slots[r].id)
    /\ Responde(r, Resposta("deletar", HTTP_204_NO_CONTENT, [id |-> slots[r].id]))
    /\ UNCHANGED <<categorias, centros, proximo_id, historico>>

(* ------------- category and training-center removal (elsewhere) -------- *)

\* a referenced row cannot be deleted: the foreign key has no cascade
deletar_categoria(c) ==
    /\ c \in categorias
    /\ \A a \in atletas : a.categoria_id # c.pk_id
    /\ categorias' = categorias \ {c}
    /\ UNCHANGED <<atletas, centros, slots, resposta, proximo_id, historico>>

deletar_centro(c) ==
    /\ c \in centros
    /\ \A a \in atletas : a.centro_treinamento_id # c.pk_id
    /\ centros' = centros \ {c}
    /\ UNCHANGED <<atletas, categorias, slots, resposta, proximo_id, historico>>

AtletaIns ==
    [cpf : Cpfs, nome : NomesCriar, peso : PesosCriar,
     categoria : CategoriaNomes, centro_treinamento : CentroNomes]

IdsPedidos == 1..MaxAtletas

Next ==
    \/ \E r \in Reqs, atleta_in \in AtletaIns : criar_atleta_categoria(r, atleta_in)
    \/ \E r \in Reqs : criar_atleta_centro(r)
    \/ \E r \in Reqs, falha \in BOOLEAN : criar_atleta_commit(r, falha)
    \/ \E r \in Reqs, nome \in FiltrosNome, cpf \in FiltrosCpf :
           listar_atletas(r, nome, cpf)
    \/ \E r \in Reqs, id \in IdsPedidos : consultar_atleta(r, id)
    \/ \E r \in Reqs, id \in IdsPedidos, u \in AtletaUpdates :
           atualizar_atleta_buscar(r, id, u)
    \/ \E r \in Reqs : atualizar_atleta_commit(r)
    \/ \E r \in Reqs, id \in IdsPedidos : deletar_atleta_buscar(r, id)
    \/ \E r \in Reqs : deletar_atleta_commit(r)
    \/ \E c \in categorias : deletar_categoria(c)
    \/ \E c \in centros : deletar_centro(c)

Spec == Init /\ [][Next]_vars

(* ============================== properties ============================ *)

\* the exception a create answered with, "none" for every other response
Exc(resp) ==
    IF resp.op = "criar" /\ resp.status \in {HTTP_303_CPF, HTTP_500_INTERNAL_SERVER_ERROR}
    THEN resp.corpo.exc ELSE "none"

\* the step in which the create of slot r commits and answers
PassoCriarCommit(r) == slots[r].pc = "criar_commit" /\ slots'[r].pc = "idle"

ComCpf(tabela, cpf) == {a \in tabela : a.cpf = cpf}

ReferenciasExistem(s) ==
    /\ PrimeiroPorNome(categorias, s.atleta_in.categoria) # None
    /\ PrimeiroPorNome(centros, s.atleta_in.centro_treinamento) # None
    /\ s.categoria \in PkIds(categorias)
    /\ s.centro \in PkIds(centros)

ArmazemInalterado == UNCHANGED <<atletas, categorias, centros>>

\* C1: in every reachable state no two stored athletes have the same CPF,
\* whatever the interleaving of creates, updates and deletes.
C1_CpfUnico == \A a, b \in atletas : a.cpf = b.cpf => a = b

\* a create inserted a CPF while another create with the same CPF had already
\* resolved its category and training center and waits to insert
C1_Witness ==
    /\ resposta.op = "criar" /\ resposta.status = HTTP_201_CREATED
    /\ resposta.corpo \in atletas
    /\ \E r \in Reqs : /\ slots[r].pc = "criar_commit"
                       /\ slots[r].atleta_in.cpf = resposta.corpo.cpf

\* C2: a create whose category and training center exist and whose CPF no
\* stored athlete holds answers 201 (the store being reachable), inserts
\* exactly one row with the resolved foreign keys, and returns an identifier
\* no row inserted earlier ever had.
C2_CriarSucesso ==
    [][\A r \in Reqs :
        (/\ PassoCriarCommit(r)
         /\ Exc(resposta') # "OperationalError"
         /\ ReferenciasExistem(slots[r])
         /\ ComCpf(atletas, slots[r].atleta_in.cpf) = {})
        => /\ resposta'.op = "criar" /\ resposta'.status = HTTP_201_CREATED
           /\ resposta'.corpo \notin atletas
           /\ atletas' = atletas \cup {resposta'.corpo}
           /\ resposta'.corpo.cpf = slots[r].atleta_in.cpf
           /\ resposta'.corpo.categoria_id =
                  PrimeiroPorNome(categorias, slots[r].atleta_in.categoria)
           /\ resposta'.corpo.centro_treinamento_id =
                  PrimeiroPorNome(centros, slots[r].atleta_in.centro_treinamento)
           /\ resposta'.corpo.id \notin historico
           /\ resposta'.corpo.id \notin Ids(atletas)]_vars

\* a create succeeded after an earlier athlete had been deleted
C2_Witness ==
    /\ resposta.op = "criar" /\ resposta.status = HTTP_201_CREATED
    /\ resposta.corpo \in atletas
    /\ historico \ Ids(atletas) # {}

\* C3: a create whose CPF a stored athlete holds (category and training center
\* existing, store reachable) answers 303 and leaves the athlete table as it
\* was, with exactly one row of that CPF.
C3_CpfDuplicado ==
    [][\A r \in Reqs :
        (/\ PassoCriarCommit(r)
         /\ Exc(resposta') # "OperationalError"
         /\ ReferenciasExistem(slots[r])
         /\ ComCpf(atletas, slots[r].atleta_in.cpf) # {})
        => /\ resposta'.op = "criar" /\ resposta'.status = HTTP_303_CPF
           /\ resposta'.corpo.cpf = slots[r].atleta_in.cpf
           /\ atletas' = atletas
           /\ Cardinality(ComCpf(atletas', slots[r].atleta_in.cpf)) = 1]_vars

C3_Witness ==
    /\ resposta.op = "criar" /\ resposta.status = HTTP_303_CPF
    /\ Cardinality(ComCpf(atletas, resposta.corpo.cpf)) = 1

\* C4: a create whose category name is absent answers 400 naming the category
\* (also when the training center is absent too); one whose category exists
\* and whose training-center name is absent answers 400 naming the training
\* center; neither persists a row.
C4_EntidadeAusente ==
    [][/\ \A r \in Reqs, atleta_in \in AtletaIns :
            (/\ criar_atleta_categoria(r, atleta_in)
             /\ PrimeiroPorNome(categorias, atleta_in.categoria) = None)
            => /\ resposta' = Resposta("criar", HTTP_400_BAD_REQUEST,
                       [entidade |-> "categoria", nome |-> atleta_in.categoria])
               /\ slots'[r].pc = "idle"
               /\ ArmazemInalterado
       /\ \A r \in Reqs :
            (/\ slots[r].pc = "criar_centro" /\ slots'[r] # slots[r]
             /\ PrimeiroPorNome(centros, slots[r].atleta_in.centro_treinamento) = None)
            => /\ resposta' = Resposta("criar", HTTP_400_BAD_REQUEST,
                       [entidade |-> "centro_treinamento",
                        nome |-> slots[r].atleta_in.centro_treinamento])
               /\ slots'[r].pc = "idle"
               /\ ArmazemInalterado]_vars

\* a create was refused for its training center, deleted while a category
\* of its name is still there
C4_Witness ==
    /\ resposta = Resposta("criar", HTTP_400_BAD_REQUEST,
                     [entidade |-> "centro_treinamento", nome |-> "ct1"])
    /\ centros = {}
    /\ categorias # {}

CamposFixos == {"id", "cpf", "categoria_id", "centro_treinamento_id", "created_at"}

\* C5: the commit of an update changes, in the row of its identifier only, at
\* most the fields the request carries: every absent field and the
\* identifier, CPF, category reference, training-center reference and
\* creation timestamp keep their values; every other row is unchanged.
C5_AtualizarParcial ==
    [][\A r \in Reqs :
        (slots[r].pc = "atualizar_commit" /\ slots'[r].pc = "idle")
        => /\ UNCHANGED <<categorias, centros>>
           /\ {a \in atletas : a.id # slots[r].id} = {a \in atletas' : a.id # slots[r].id}
           /\ Cardinality(PorId(slots[r].id)) = Cardinality({a \in atletas' : a.id = slots[r].id})
           /\ \A velha \in PorId(slots[r].id) :
                \A nova \in {a \in atletas' : a.id = slots[r].id} :
                    \A k \in DOMAIN velha :
                        (k \in CamposFixos \/ k \notin slots[r].atleta_update.fields_set)
                        => nova[k] = velha[k]]_vars

\* an update that carried only the weight answered 200: the row has the new
\* weight and the name it was created with
C5_Witness ==
    /\ resposta.op = "atualizar" /\ resposta.status = HTTP_200_OK
    /\ resposta.corpo \in atletas
    /\ resposta.corpo.peso \in PesosAtualizar
    /\ resposta.corpo.nome \in NomesCriar

Deletados == historico \ Ids(atletas)

\* C6: a deleted identifier never comes back; a get, update or delete that
\* starts after the delete answers 404; the delete's commit removes the row
\* of its identifier and nothing else.
C6_DeletePermanente ==
    [][/\ \A id \in Deletados : id \notin Ids(atletas')
       /\ \A r \in Reqs, id \in Deletados :
            (\/ consultar_atleta(r, id)
             \/ deletar_atleta_buscar(r, id)
             \/ \E u \in AtletaUpdates : atualizar_atleta_buscar(r, id, u))
            => /\ resposta'.status = HTTP_404_NOT_FOUND
               /\ resposta'.corpo.id = id
               /\ slots'[r].pc = "idle"
       /\ \A r \in Reqs :
            (slots[r].pc = "deletar_commit" /\ slots'[r].pc = "idle")
            => /\ atletas' = {a \in atletas : a.id # slots[r].id}
               /\ UNCHANGED <<categorias, centros>>
               /\ slots[r].id \notin Ids(atletas')]_vars

\* a get of a deleted identifier answered 404 while another athlete is stored
C6_Witness ==
    /\ resposta.op = "consultar" /\ resposta.status = HTTP_404_NOT_FOUND
    /\ resposta.corpo.id \in Deletados
    /\ atletas # {}

\* C7: a get, update or delete of an identifier no row has answers 404 and
\* leaves the store unchanged; a get of an identifier a row has answers 200
\* with that row.
C7_NaoEncontrado ==
    [][\A r \in Reqs, id \in IdsPedidos :
        /\ (/\ id \notin Ids(atletas)
            /\ \/ consultar_atleta(r, id)
               \/ deletar_atleta_buscar(r, id)
               \/ \E u \in AtletaUpdates : atualizar_atleta_buscar(r, id, u))
           => /\ resposta'.status = HTTP_404_NOT_FOUND
              /\ resposta'.corpo.id = id
              /\ slots' = slots
              /\ ArmazemInalterado
        /\ (id \in Ids(atletas) /\ consultar_atleta(r, id))
           => /\ resposta'.op = "consultar" /\ resposta'.status = HTTP_200_OK
              /\ resposta'.corpo \in atletas
              /\ resposta'.corpo.id = id
              /\ ArmazemInalterado]_vars

\* a delete of an identifier never handed out answered 404 while an athlete
\* is stored
C7_Witness ==
    /\ resposta.op = "deletar" /\ resposta.status = HTTP_404_NOT_FOUND
    /\ resposta.corpo.id >= proximo_id
    /\ atletas # {}

\* sub occurs in texto, case ignored
ContemSemCaixa(texto, sub) ==
    \E i \in 0..(Len(texto) - Len(sub)) :
        \A j \in 1..Len(sub) : Lower(texto[i + j]) = Lower(sub[j])

\* C8: list returns exactly the athletes whose references resolve, whose name
\* contains the nome filter as a case-insensitive substring and whose CPF
\* equals the cpf filter (an omitted or empty filter restricts nothing); with
\* a cpf filter at most one athlete, of that CPF, is returned.
C8_Listar ==
    \A nome \in FiltrosNome, cpf \in FiltrosCpf :
        /\ Filtrados(nome, cpf) =
               {a \in atletas :
                    /\ a.categoria_id \in PkIds(categorias)
                    /\ a.centro_treinamento_id \in PkIds(centros)
                    /\ nome # <<>> => ContemSemCaixa(a.nome, nome)
                    /\ cpf # "" => a.cpf = cpf}
        /\ cpf # "" => Cardinality(Filtrados(nome, cpf)) <= 1

ReferenciaDeletada(s) ==
    s.categoria \notin PkIds(categorias) \/ s.centro \notin PkIds(centros)

SemReferenciaPendente ==
    \A a \in atletas : /\ a.categoria_id \in PkIds(categorias)
                       /\ a.centro_treinamento_id \in PkIds(centros)

\* C10 as claimed: a create whose category or training center was deleted
\* after it resolved them answers 500 and persists nothing.
C10_Original ==
    [][\A r \in Reqs :
        (PassoCriarCommit(r) /\ ReferenciaDeletada(slots[r]))
        => /\ resposta'.status = HTTP_500_INTERNAL_SERVER_ERROR
           /\ atletas' = atletas]_vars

\* C10 as amended: such a create persists nothing; it answers 500 when its CPF
\* is free, and 303 or 500 when a stored athlete holds its CPF; no stored
\* athlete ever references a missing category or training center.
C10_CorridaChaveEstrangeira ==
    /\ []SemReferenciaPendente
    /\ [][\A r \in Reqs :
            (PassoCriarCommit(r) /\ ReferenciaDeletada(slots[r]))
            => /\ atletas' = atletas
               /\ resposta'.op = "criar"
               /\ resposta'.status \in {HTTP_303_CPF, HTTP_500_INTERNAL_SERVER_ERROR}
               /\ ComCpf(atletas, slots[r].atleta_in.cpf) = {}
                      => resposta'.status = HTTP_500_INTERNAL_SERVER_ERROR]_vars

\* a create answered 500 on the foreign key, its category or training center
\* gone
C10_Witness ==
    /\ resposta.op = "criar" /\ resposta.status = HTTP_500_INTERNAL_SERVER_ERROR
    /\ resposta.corpo.exc = "IntegrityError_fk"
    /\ categorias = {} \/ centros = {}

====
